---------------------------- MODULE Spec2Model ----------------------------
(***************************************************************************)
(* Model of the two-axis antenna pointing controller, class Antenna of     *)
(* GS_embedded_teensy_2/Antenna.h: point_to, go_home and empty_water       *)
(* driving an azimuth stepper read back by a multi-turn encoder and an     *)
(* elevation stepper read back by a single-turn encoder.                   *)
(*                                                                         *)
(* Angles in degrees are whole numbers.  The C++ expressions that go       *)
(* through float/double and are cast to int are computed exactly and       *)
(* truncated toward zero, as the cast does.                                *)
(***************************************************************************)
EXTENDS Integers, Sequences, FiniteSets

(***************************************************************************)
(* Configuration macros of define.h (included at Antenna.h:6).             *)
(***************************************************************************)
ENCODERS_MAX == 4096
AZ_NORTH_ENCODER_VAL == 1000
ELEV_ZENITH_ENCODER_VAL == 500
AZ_MICRO_STEP_PER_TURN == 3200
AZ_REDUC == 32
ELEV_MICRO_STEP_PER_TURN == 3200
ELEV_REDUC == 64
AZ_MAX_ROTATION_DEG == 540
ELEV_ZENITH_SAFETY_MARGIN_DEG == 5

(***************************************************************************)
(* Bounds of the model.                                                    *)
(***************************************************************************)
AzStepDeg == 60
MaxAzK == 12
ElStepDeg == 30
MaxElK == 4
MaxTurns == 4
StartTurnCount == 50
InitStride == 409
MaxInitK == 9

AzInputs == { AzStepDeg * k : k \in (0 - MaxAzK)..MaxAzK }
ElInputs == { ElStepDeg * k : k \in (0 - 1)..MaxElK }

(***************************************************************************)
(* C integer arithmetic: the (int) cast and integer / truncate toward      *)
(* zero, and % takes the sign of the dividend.                             *)
(***************************************************************************)
TruncDiv(a, b) == IF a >= 0 THEN a \div b ELSE 0 - ((0 - a) \div b)

CMod(a, b) == a - b * TruncDiv(a, b)

Abs(x) == IF x < 0 THEN 0 - x ELSE x

VARIABLES
    az_pos,               \* az_encoder: wrapped position, 0..ENCODERS_MAX-1
    az_turn,              \* az_encoder: signed cumulative turn count
    elev_pos,             \* elev_encoder: wrapped position
    az_init_turn_count,   \* Antenna::az_init_turn_count
    pc,                   \* where the caller of the controller stands
    mode,                 \* the public operation in progress or just returned
    ops,                  \* actuator-affecting operations of that operation, in order
    call,                 \* locals and step commands of the latest point_to
    unwind                \* turn count read and step count issued by the latest go_home

vars == <<az_pos, az_turn, elev_pos, az_init_turn_count, pc, mode, ops, call, unwind>>

(***************************************************************************)
(* point_to, azimuth part.                                                 *)
(***************************************************************************)
\* Mutant of NormalizeAz: 360 is added once instead of while negative.
NormalizeAzOnce(az_deg) == IF az_deg < 0 THEN az_deg + 360 ELSE az_deg

RECURSIVE NormalizeAz(_)
NormalizeAz(az_deg) == IF az_deg < 0 THEN NormalizeAz(az_deg + 360) ELSE az_deg

\* (int)(deg / 360.0 * ENCODERS_MAX + offset) % ENCODERS_MAX
TargetEncoderVal(deg, offset) ==
    CMod(TruncDiv(deg * ENCODERS_MAX + offset * 360, 360), ENCODERS_MAX)

\* Mutant of ShortestPath: the two rewrap branches are swapped.
ShortestPathSwapped(diff) ==
    IF Abs(diff) > TruncDiv(ENCODERS_MAX, 2)
    THEN IF diff < 0 THEN diff - ENCODERS_MAX ELSE diff + ENCODERS_MAX
    ELSE diff

ShortestPath(diff) ==
    IF Abs(diff) > TruncDiv(ENCODERS_MAX, 2)
    THEN IF diff < 0 THEN diff + ENCODERS_MAX ELSE diff - ENCODERS_MAX
    ELSE diff

\* ((float)(turn - init) + (current + diff)/ENCODERS_MAX) * 360.0, the second
\* term an int / int division
PredDiffDegSinceInit(turn_count, current, diff) ==
    ((turn_count - az_init_turn_count) + TruncDiv(current + diff, ENCODERS_MAX)) * 360

AzFullTurn == AZ_MICRO_STEP_PER_TURN * AZ_REDUC

Untangle(pred) ==
    (IF pred > AZ_MAX_ROTATION_DEG THEN << 0 - AzFullTurn >> ELSE << >>)
    \o (IF pred < 0 - AZ_MAX_ROTATION_DEG THEN << AzFullTurn >> ELSE << >>)

\* Mutant of StepToTurn: the (float) cast is missing, so diff / ENCODERS_MAX
\* is an integer division.
StepToTurnIntDiv(diff, reduc, micro_step) ==
    TruncDiv(diff, ENCODERS_MAX) * reduc * micro_step

\* (float)diff / ENCODERS_MAX * reduc * micro_step, converted to int
StepToTurn(diff, reduc, micro_step) ==
    TruncDiv(diff * reduc * micro_step, ENCODERS_MAX)

(***************************************************************************)
(* point_to, elevation part.                                               *)
(***************************************************************************)
ElevMaxDeg == 90 - ELEV_ZENITH_SAFETY_MARGIN_DEG

\* Mutant of ClampElev: the zenith check is missing.
ClampElevNoUpper(elev_deg) == IF elev_deg < 0 THEN 0 ELSE elev_deg

ClampElev(elev_deg) ==
    LET upper == IF elev_deg > ElevMaxDeg THEN ElevMaxDeg ELSE elev_deg
    IN  IF upper < 0 THEN 0 ELSE upper

ELEV_HORIZON_ENCODER_OFFSET_VAL ==
    CMod(ELEV_ZENITH_ENCODER_VAL - TruncDiv(ENCODERS_MAX, 4) + ENCODERS_MAX, ENCODERS_MAX)

(***************************************************************************)
(* The locals of one point_to call made in the current state, and the      *)
(* step commands it issues to each stepper, in order.                      *)
(***************************************************************************)
PointToLocals(az_deg_arg, elev_deg_arg) ==
    LET az_deg == NormalizeAz(az_deg_arg)
        az_target_encoder_val == TargetEncoderVal(az_deg, AZ_NORTH_ENCODER_VAL)
        az_current_encoder_val == az_pos
        az_encoder_val_diff == ShortestPath(az_target_encoder_val - az_current_encoder_val)
        az_current_turn_count == az_turn
        az_pred == PredDiffDegSinceInit(az_current_turn_count, az_current_encoder_val,
                                        az_encoder_val_diff)
        az_step_to_turn == StepToTurn(az_encoder_val_diff, AZ_REDUC, AZ_MICRO_STEP_PER_TURN)
        elev_deg == ClampElev(elev_deg_arg)
        elev_target_encoder_val == TargetEncoderVal(elev_deg, ELEV_HORIZON_ENCODER_OFFSET_VAL)
        elev_current_encoder_val == elev_pos
        elev_encoder_val_diff == ShortestPath(elev_target_encoder_val - elev_current_encoder_val)
        elev_step_to_turn == StepToTurn(elev_encoder_val_diff, ELEV_REDUC, ELEV_MICRO_STEP_PER_TURN)
    IN  [ valid |-> TRUE,
          az_deg_arg |-> az_deg_arg,
          elev_deg_arg |-> elev_deg_arg,
          az_deg |-> az_deg,
          az_target_encoder_val |-> az_target_encoder_val,
          az_current_encoder_val |-> az_current_encoder_val,
          az_encoder_val_diff |-> az_encoder_val_diff,
          az_current_turn_count |-> az_current_turn_count,
          az_pred |-> az_pred,
          az_steps |-> Untangle(az_pred) \o << az_step_to_turn >>,
          elev_deg |-> elev_deg,
          elev_target_encoder_val |-> elev_target_encoder_val,
          elev_current_encoder_val |-> elev_current_encoder_val,
          elev_encoder_val_diff |-> elev_encoder_val_diff,
          elev_steps |-> << 0 - elev_step_to_turn >> ]

NoCall ==
    [ valid |-> FALSE, az_deg_arg |-> 0, elev_deg_arg |-> 0, az_deg |-> 0,
      az_target_encoder_val |-> 0, az_current_encoder_val |-> 0,
      az_encoder_val_diff |-> 0, az_current_turn_count |-> 0, az_pred |-> 0,
      az_steps |-> << >>, elev_deg |-> 0, elev_target_encoder_val |-> 0,
      elev_current_encoder_val |-> 0, elev_encoder_val_diff |-> 0,
      elev_steps |-> << >> ]

NoUnwind == [ valid |-> FALSE, az_current_turn_count |-> 0, az_current_encoder_val |-> 0,
              steps |-> 0 ]

(***************************************************************************)
(* The steppers and encoders: Stepper::step(n) moves the shaft n           *)
(* microsteps and returns when the motion is over.  A positive count on    *)
(* the azimuth stepper raises the azimuth encoder's reading, wrapping it   *)
(* and counting the turn; on the elevation axis the stepper is mounted     *)
(* the other way round.                                                    *)
(***************************************************************************)
AzUnits(n) == (n * ENCODERS_MAX) \div (AZ_REDUC * AZ_MICRO_STEP_PER_TURN)

ElevUnits(n) == (n * ENCODERS_MAX) \div (ELEV_REDUC * ELEV_MICRO_STEP_PER_TURN)

RECURSIVE AzTravel(_)
AzTravel(steps) == IF steps = << >> THEN 0 ELSE AzUnits(Head(steps)) + AzTravel(Tail(steps))

RECURSIVE ElevTravel(_)
ElevTravel(steps) ==
    IF steps = << >> THEN 0 ELSE (0 - ElevUnits(Head(steps))) + ElevTravel(Tail(steps))

AzStepperStep(steps) ==
    LET total == az_turn * ENCODERS_MAX + az_pos + AzTravel(steps)
    IN  /\ az_turn' = total \div ENCODERS_MAX
        /\ az_pos' = total % ENCODERS_MAX

ElevStepperStep(steps) ==
    elev_pos' = (elev_pos + ElevTravel(steps)) % ENCODERS_MAX

(***************************************************************************)
(* Construction: the reference turn count is the encoder's at startup.     *)
(***************************************************************************)
InitAzPositions ==
    { (k * InitStride) % ENCODERS_MAX : k \in 0..MaxInitK }
    \cup { (AZ_NORTH_ENCODER_VAL + k * (ENCODERS_MAX \div 2) + j) % ENCODERS_MAX :
             k \in 0..1, j \in {0 - 1, 0, 1} }

InitElevPositions ==
    { (ELEV_HORIZON_ENCODER_OFFSET_VAL + k * (ENCODERS_MAX \div 2) + j) % ENCODERS_MAX :
        k \in 0..1, j \in {0 - 1, 0, 1} }

Init ==
    /\ az_pos \in InitAzPositions
    /\ elev_pos \in InitElevPositions
    /\ az_turn = StartTurnCount
    /\ az_init_turn_count = az_turn
    /\ pc = "idle"
    /\ mode = "none"
    /\ ops = << >>
    /\ call = NoCall
    /\ unwind = NoUnwind

(***************************************************************************)
(* Operations.                                                             *)
(***************************************************************************)
\* Mutant of DoPointTo: the reference turn count is captured again.
DoPointToRecapture(az_deg, elev_deg) ==
    /\ call' = PointToLocals(az_deg, elev_deg)
    /\ AzStepperStep(call'.az_steps)
    /\ ElevStepperStep(call'.elev_steps)
    /\ az_init_turn_count' = az_turn'

\* The body of point_to: both axes are read, the commands computed and issued.
DoPointTo(az_deg, elev_deg) ==
    /\ call' = PointToLocals(az_deg, elev_deg)
    /\ AzStepperStep(call'.az_steps)
    /\ ElevStepperStep(call'.elev_steps)
    /\ UNCHANGED az_init_turn_count

PointTo(az_deg, elev_deg) ==
    /\ pc = "idle"
    /\ DoPointTo(az_deg, elev_deg)
    /\ pc' = "returned"
    /\ mode' = "point_to"
    /\ ops' = << <<"point_to", az_deg, elev_deg>> >>
    /\ unwind' = NoUnwind

\* Mutant of UnwindSteps: the gear reduction is left out.
UnwindStepsNoReduction(az_current_turn_count) ==
    (az_current_turn_count - az_init_turn_count) * AZ_MICRO_STEP_PER_TURN

\* go_home's step count, from the turn count it reads
UnwindSteps(az_current_turn_count) ==
    (az_current_turn_count - az_init_turn_count) * AZ_MICRO_STEP_PER_TURN * AZ_REDUC

\* go_home up to its call of point_to
DoUnwind ==
    /\ Abs(2 * (az_turn - az_init_turn_count)) <= MaxTurns
    /\ unwind' = [ valid |-> TRUE, az_current_turn_count |-> az_turn,
                   az_current_encoder_val |-> az_pos, steps |-> UnwindSteps(az_turn) ]
    /\ AzStepperStep(<< unwind'.steps >>)
    /\ UNCHANGED <<elev_pos, az_init_turn_count>>

GoHomeUnwind ==
    /\ pc = "idle"
    /\ DoUnwind
    /\ pc' = "unwound"
    /\ mode' = "go_home"
    /\ ops' = << <<"az_step", unwind'.steps, 0>> >>
    /\ call' = NoCall

\* go_home's point_to(0, 90.0 - ELEV_ZENITH_SAFETY_MARGIN_DEG), and its return
GoHomePoint ==
    /\ pc = "unwound"
    /\ DoPointTo(0, 90 - ELEV_ZENITH_SAFETY_MARGIN_DEG)
    /\ pc' = "returned"
    /\ ops' = Append(ops, <<"point_to", 0, 90 - ELEV_ZENITH_SAFETY_MARGIN_DEG>>)
    /\ UNCHANGED <<mode, unwind>>

\* empty_water's point_to(0, 60)
EmptyWaterPoint ==
    /\ pc = "idle"
    /\ DoPointTo(0, 60)
    /\ pc' = "draining"
    /\ mode' = "empty_water"
    /\ ops' = << <<"point_to", 0, 60>> >>
    /\ unwind' = NoUnwind

\* Mutant of EmptyWaterHold: the delay is left out and go_home starts at once.
EmptyWaterHoldSkipped ==
    /\ pc = "draining"
    /\ DoUnwind
    /\ pc' = "unwound"
    /\ ops' = Append(ops, <<"az_step", unwind'.steps, 0>>)
    /\ UNCHANGED <<mode, call>>

\* empty_water's delay(3000)
EmptyWaterHold ==
    /\ pc = "draining"
    /\ pc' = "drained"
    /\ ops' = Append(ops, <<"delay", 3000, 0>>)
    /\ UNCHANGED <<az_pos, az_turn, elev_pos, az_init_turn_count, mode, call, unwind>>

\* empty_water's go_home(), up to go_home's call of point_to
EmptyWaterUnwind ==
    /\ pc = "drained"
    /\ DoUnwind
    /\ pc' = "unwound"
    /\ ops' = Append(ops, <<"az_step", unwind'.steps, 0>>)
    /\ UNCHANGED <<mode, call>>

\* The caller takes over again; what the finished operation left behind is dropped.
Resume ==
    /\ pc = "returned"
    /\ pc' = "idle"
    /\ mode' = "none"
    /\ ops' = << >>
    /\ call' = NoCall
    /\ unwind' = NoUnwind
    /\ UNCHANGED <<az_pos, az_turn, elev_pos, az_init_turn_count>>

Next ==
    \/ \E az_deg \in AzInputs, elev_deg \in ElInputs : PointTo(az_deg, elev_deg)
    \/ GoHomeUnwind
    \/ GoHomePoint
    \/ EmptyWaterPoint
    \/ EmptyWaterHold
    \/ EmptyWaterUnwind
    \/ Resume

Spec == Init /\ [][Next]_vars

\* Callers that only ever call point_to.
NextPointTo ==
    \/ \E az_deg \in AzInputs, elev_deg \in ElInputs : PointTo(az_deg, elev_deg)
    \/ Resume

SpecPointTo == Init /\ [][NextPointTo]_vars


(***************************************************************************)
(* Properties.                                                             *)
(***************************************************************************)
PointToReturned == pc \in {"returned", "draining"} /\ call.valid

\* Cumulative azimuth rotation since startup, in encoder units:
\* (turn - init + position / ENCODERS_MAX) * ENCODERS_MAX
RotationUnits(turn_count, position) ==
    (turn_count - az_init_turn_count) * ENCODERS_MAX + position

\* The rotation, in encoder units, that the latest point_to predicted from
\* what it read and the rewrapped diff; degrees = units * 360 / ENCODERS_MAX.
PredictedUnits ==
    RotationUnits(call.az_current_turn_count,
                  call.az_current_encoder_val + call.az_encoder_val_diff)

PredictedAbove == PredictedUnits * 360 > AZ_MAX_ROTATION_DEG * ENCODERS_MAX

PredictedBelow == PredictedUnits * 360 < (0 - AZ_MAX_ROTATION_DEG) * ENCODERS_MAX

\* C1: whenever the predicted rotation (turn - init + (current + diff) /
\* encoder_max) * 360 of a point_to exceeds max_rotation_deg, the azimuth
\* stepper receives exactly one full-revolution step in the negative direction
\* before the main step; whenever it is below -max_rotation_deg, exactly one
\* in the positive direction before the main step; in both cases the
\* corrective step reduces the magnitude of the excess.
C1_CorrectiveStepWhenPredictedExceeds ==
    call.valid =>
        /\ PredictedAbove =>
              /\ Len(call.az_steps) = 2
              /\ call.az_steps[1] = 0 - AZ_MICRO_STEP_PER_TURN * AZ_REDUC
              /\ Abs(PredictedUnits - ENCODERS_MAX) < Abs(PredictedUnits)
        /\ PredictedBelow =>
              /\ Len(call.az_steps) = 2
              /\ call.az_steps[1] = AZ_MICRO_STEP_PER_TURN * AZ_REDUC
              /\ Abs(PredictedUnits + ENCODERS_MAX) < Abs(PredictedUnits)

\* C2: whenever point_to returns, the cumulative azimuth rotation since
\* startup, (turn_count - init_turn_count + position / encoder_max) * 360
\* degrees, is within [-max_rotation_deg, max_rotation_deg].
C2_CableTwistBounded ==
    PointToReturned =>
        Abs(RotationUnits(az_turn, az_pos)) * 360 <= AZ_MAX_ROTATION_DEG * ENCODERS_MAX

\* C3: once go_home's unwind step has completed and before its point_to
\* moves the axis, the azimuth turn count equals init_turn_count.
C3_GoHomeUnwindsToInitTurnCount ==
    pc = "unwound" => az_turn = az_init_turn_count

\* C4: on both axes the diff that point_to converts into steps satisfies
\* |diff| <= encoder_max / 2 and (current + diff) mod encoder_max = target;
\* with zero_offset 0 and current 0 a request of 350 degrees gives target
\* 3982 and a diff of -114, backward through zero.
C4_ShortestPathRewrap ==
    /\ call.valid =>
          /\ 2 * Abs(call.az_encoder_val_diff) <= ENCODERS_MAX
          /\ (call.az_current_encoder_val + call.az_encoder_val_diff) % ENCODERS_MAX
                = call.az_target_encoder_val
          /\ 2 * Abs(call.elev_encoder_val_diff) <= ENCODERS_MAX
          /\ (call.elev_current_encoder_val + call.elev_encoder_val_diff) % ENCODERS_MAX
                = call.elev_target_encoder_val
    /\ LET target == TargetEncoderVal(350, 0)
           diff == ShortestPath(target - 0)
       IN  /\ target = 3982
           /\ diff = 0 - 114
           /\ Abs(diff - (0 - 115)) <= 1

\* C4's case: the raw difference was more than half a turn on both axes.
C4_Witness ==
    /\ call.valid
    /\ Abs(call.az_target_encoder_val - call.az_current_encoder_val) * 2 > ENCODERS_MAX
    /\ Abs(call.elev_target_encoder_val - call.elev_current_encoder_val) * 2 > ENCODERS_MAX

Min(a, b) == IF a < b THEN a ELSE b

Max(a, b) == IF a > b THEN a ELSE b

\* The elevation encoder's reading counted from the horizon reference.
UnitsAboveHorizon(position) ==
    (position - ELEV_HORIZON_ENCODER_OFFSET_VAL) % ENCODERS_MAX

\* C5: the elevation angle point_to uses is min(max(elevation_deg, 0),
\* 90 - margin), the elevation target is the target of that angle, and the
\* elevation is never commanded above 90 - margin or below 0.
C5_ElevationClamp ==
    call.valid =>
        LET used == Min(Max(call.elev_deg_arg, 0), 90 - ELEV_ZENITH_SAFETY_MARGIN_DEG)
        IN  /\ call.elev_deg = used
            /\ call.elev_target_encoder_val
                  = TargetEncoderVal(used, ELEV_HORIZON_ENCODER_OFFSET_VAL)
            /\ UnitsAboveHorizon(call.elev_target_encoder_val) * 360
                  <= (90 - ELEV_ZENITH_SAFETY_MARGIN_DEG) * ENCODERS_MAX
            /\ PointToReturned =>
                  UnitsAboveHorizon(elev_pos) * 360
                      <= (90 - ELEV_ZENITH_SAFETY_MARGIN_DEG) * ENCODERS_MAX

\* C5's case: a request above 90 - margin has been served.
C5_Witness ==
    /\ PointToReturned
    /\ call.elev_deg_arg > 90 - ELEV_ZENITH_SAFETY_MARGIN_DEG
    /\ call.elev_encoder_val_diff # 0

\* C6 as stated: for every requested azimuth the value point_to uses to
\* compute the target lies in [0, 360), is congruent to the request modulo
\* 360, and the target is that of azimuth_deg mod 360.
C6_NormalizedIntoRange ==
    call.valid =>
        /\ call.az_deg \in 0..359
        /\ (call.az_deg - call.az_deg_arg) % 360 = 0
        /\ call.az_target_encoder_val
              = TargetEncoderVal(call.az_deg_arg % 360, AZ_NORTH_ENCODER_VAL)

\* C6 amended: a negative request is brought into [0, 360) by adding 360
\* repeatedly; a request of 0 or more, 360 or more included, is used as it
\* is; in every case the value used is congruent to the request modulo 360
\* and the target is that of azimuth_deg mod 360.
C6_NormalizedNegativeOnly ==
    call.valid =>
        /\ call.az_deg_arg < 0 => call.az_deg \in 0..359
        /\ call.az_deg_arg >= 0 => call.az_deg = call.az_deg_arg
        /\ (call.az_deg - call.az_deg_arg) % 360 = 0
        /\ call.az_target_encoder_val
              = TargetEncoderVal(call.az_deg_arg % 360, AZ_NORTH_ENCODER_VAL)

\* C6's case: a request that needs more than one addition of 360.
C6_Witness ==
    /\ call.valid
    /\ call.az_deg_arg < 0 - 360
    /\ call.az_encoder_val_diff # 0

\* The operations empty_water is specified to perform, as far as it has got.
EmptyWaterSequence(unwind_steps) ==
    << <<"point_to", 0, 60>>,
       <<"delay", 3000, 0>>,
       <<"az_step", unwind_steps, 0>>,
       <<"point_to", 0, 90 - ELEV_ZENITH_SAFETY_MARGIN_DEG>> >>

ActuatorOps(s) == { i \in 1..Len(s) : s[i][1] # "delay" }

\* C7: every execution of empty_water is point_to(0, 60), then the hold of
\* 3000 ms, then go_home's azimuth step, then point_to(0, 90 - margin):
\* three actuator-affecting operations in that order, none after the final
\* point_to, and no axis moves during the hold.
C7_EmptyWaterOrdering ==
    /\ [](mode = "empty_water" =>
            /\ pc \in {"draining", "drained", "unwound", "returned"}
            /\ pc = "draining" => ops = SubSeq(EmptyWaterSequence(0), 1, 1)
            /\ pc = "drained" => ops = SubSeq(EmptyWaterSequence(0), 1, 2)
            /\ pc = "unwound" => ops = SubSeq(EmptyWaterSequence(unwind.steps), 1, 3)
            /\ pc = "returned" =>
                  /\ ops = EmptyWaterSequence(unwind.steps)
                  /\ Cardinality(ActuatorOps(ops)) = 3)
    /\ [][pc = "draining" => UNCHANGED <<az_pos, az_turn, elev_pos>>]_vars
    /\ [][(mode = "empty_water" /\ pc = "returned") =>
              UNCHANGED <<az_pos, az_turn, elev_pos>>]_vars

\* C7's case: empty_water has run to its end and its go_home step moved the axis.
C7_Witness ==
    /\ mode = "empty_water"
    /\ pc = "returned"
    /\ Len(ops) = 4
    /\ unwind.steps # 0

\* C8: the first step command go_home issues has a count of (current turn
\* count - init_turn_count) * microsteps_per_turn * gear_reduction, whatever
\* the wrapped position; it is issued as it is, before go_home's point_to,
\* and is zero when the turn count equals init_turn_count.
C8_GoHomeUnwindCount ==
    unwind.valid =>
        LET count == (unwind.az_current_turn_count - az_init_turn_count)
                        * AZ_MICRO_STEP_PER_TURN * AZ_REDUC
            first == IF mode = "empty_water" THEN 3 ELSE 1
        IN  /\ unwind.steps = count
            /\ mode \in {"go_home", "empty_water"}
            /\ Len(ops) >= first
            /\ ops[first] = <<"az_step", count, 0>>
            /\ \A i \in 1..Len(ops) : i # first => ops[i][1] # "az_step"
            /\ unwind.az_current_turn_count = az_init_turn_count => unwind.steps = 0

\* C8's case: go_home has issued its step two turns away from the reference,
\* more than a shortest path covers, at a position other than zero.
C8_Witness ==
    /\ unwind.valid
    /\ pc = "unwound"
    /\ Abs(unwind.az_current_turn_count - az_init_turn_count) = 2
    /\ unwind.az_current_encoder_val # 0

\* C9: no operation writes init_turn_count (nor is there another field to
\* write), and the step commands of a point_to are those computed from its
\* arguments, the readings of both encoders and the configuration alone.
C9_PointToStateless ==
    [][/\ az_init_turn_count' = az_init_turn_count
       /\ (call'.valid /\ call' # call) =>
             LET locals == PointToLocals(call'.az_deg_arg, call'.elev_deg_arg)
             IN  /\ call'.az_steps = locals.az_steps
                 /\ call'.elev_steps = locals.elev_steps]_vars

\* C9's case: a point_to that returns after go_home and other moves took the
\* axis away from the reference turn.
C9_Witness ==
    /\ pc = "returned"
    /\ mode = "go_home"
    /\ call.valid
    /\ az_turn # az_init_turn_count
    /\ az_init_turn_count = StartTurnCount

\* C10: when point_to returns, the azimuth reading equals the azimuth target,
\* with or without a corrective turn, the elevation reading equals the
\* elevation target, and the same point_to called again would issue main
\* steps of zero microsteps on both axes.
C10_ReachesTargetIdempotent ==
    PointToReturned =>
        LET again == PointToLocals(call.az_deg_arg, call.elev_deg_arg)
        IN  /\ az_pos = call.az_target_encoder_val
            /\ elev_pos = call.elev_target_encoder_val
            /\ again.az_target_encoder_val = call.az_target_encoder_val
            /\ again.az_steps[Len(again.az_steps)] = 0
            /\ again.elev_steps[Len(again.elev_steps)] = 0

\* C10's case: a point_to that inserted a corrective turn and moved both axes.
C10_Witness ==
    /\ PointToReturned
    /\ Len(call.az_steps) = 2
    /\ call.az_encoder_val_diff # 0
    /\ call.elev_encoder_val_diff # 0

=============================================================================
